---- MODULE Spec2Model ----
(***************************************************************************)
(* watchrabbit: the RabbitMQ client (pkg/messaging/rabbitmq.go) and the    *)
(* two programs that use it, the file watcher (cmd/file-watcher/main.go)   *)
(* and the analysis worker (cmd/worker/main.go).                           *)
(*                                                                         *)
(* The state is the client's fields, the goroutines' positions, and the    *)
(* part of the broker the client can observe: connection and channel       *)
(* instances, declared topology, queues and unacknowledged deliveries.     *)
(***************************************************************************)
EXTENDS Integers, Sequences, FiniteSets, TLC

\* ------------------------------------------------------------------ bounds
\* Broker-side faults (unsolicited closures of a connection or of a channel
\* alone, refused channel opens) in a run
\* of the file watcher and in a run of the worker.
MaxFaults == 2
MaxWorkerFaults == 1
\* Messages the file watcher puts on the file.detected queue in a worker run.
MaxMsgs == 1
\* Times the file watcher is started against the same broker.
MaxRuns == 2

\* Every successful dial beyond the first is paid for by one fault, so this
\* many connection instances are enough for any run.
MaxConn == MaxFaults + MaxWorkerFaults + 1
ConnIds == 1..MaxConn

\* connRetry: make(chan struct{}, 1)
ConnRetryCap == 1

Threads == {"main", "loop"}

VARIABLES
  prog,        \* which main() runs: "file-watcher" or "worker"
  pc,          \* position of main and of reconnectMonitor
  conn,        \* c.conn: instance id, 0 for nil
  ch,          \* c.ch: instance id of the channel's connection, 0 for nil
  closed,      \* c.closed
  connRetry,   \* number of signals buffered in c.connRetry
  dialed,      \* connect()'s local conn, per calling thread
  wpc,         \* position of the close-watcher goroutine of each instance
  wreg,        \* the connection each watcher registered NotifyClose on
  sent,        \* history: signals each watcher has put on connRetry
  connState,   \* broker: instance -> "none" | "open" | "closed"
  chanState,   \* broker: the one channel of an instance, same values
  closedBy,    \* instance -> "none" | "broker" | "client": who closed it
  nConn,       \* instances dialed so far
  faultsLeft,  \* faults the broker may still inject
  cycles,      \* history: signals reconnectMonitor took and acted upon
  topology,    \* broker: the exchanges, queues and bindings declared (durable)
  declIdx,     \* SetupInfrastructure: index of the next declaration
  declaredVia, \* history: channel -> declarations made through it
  queue,       \* broker: queue name -> messages ready for delivery
  held,        \* broker: queue name -> messages delivered and not yet acked
  consumerCh,  \* broker: queue name -> channel of the worker's consumer, 0 if none
  injected,    \* FileDetected messages the file watcher has published
  entered,     \* history: <<queue, id>> the broker has enqueued
  arrived,     \* history: queue -> ids in the order the broker enqueued them
  removed,     \* history: <<queue, id>> the broker has dropped on an ack
  msgs,        \* Subscribe: the delivery channel of each subscription
  dpc,         \* position of each delivery goroutine
  cur,         \* msg: the delivery the goroutine is handling
  taken,       \* history: queue -> ids in the order the handler first got them
  herr,        \* err: whether the handler returned an error
  outcome,     \* what ExecuteAnalysis ended with, "" before it ran
  attempts,    \* history: sends the current handler invocation attempted
  accepted,    \* history: events the broker took from the current invocation
  lastAck,     \* history: Ack/Nack calls made for the current delivery
  usedCh,      \* history: channels PublishEvent has sent on
  okReturned,  \* history: <<queue, id>> whose handler has returned nil
  runs,        \* how many times the process has been started
  tpc,         \* event chain: position of the handler that is running
  tmsg,        \* event chain: the message it was called with
  analysisID,  \* ExecuteAnalysis: the identifier of this invocation
  outputFile,  \* ExecuteAnalysis: the artifact path of this invocation
  prev,        \* history: input, identifier and path of the invocation before
  outputPath,  \* OutputPath of the metadata ExecuteAnalysis returns
  errorMessage, \* ErrorMessage of the metadata ExecuteAnalysis returns
  proc,        \* the external R process of this invocation
  waited,      \* cmd.Wait() has returned and its result is on done
  overran,     \* history: the timer fired while the process was running
  started,     \* history: processes started by this invocation
  artifact,    \* the output file of this invocation exists
  terr,        \* the error ExecuteAnalysis returns, "" for nil
  result,      \* Status of the metadata ExecuteAnalysis returns
  published,   \* history: events this handler call has published
  tattempts,   \* history: PublishEvent calls of this handler call
  tsends,      \* history: c.ch.PublishWithContext calls of this handler call
  perr,        \* what failed in PublishEvent: "", "marshal" or "publish"
  treturn      \* what the handler returned: "", "nil" or "err"

clientVars == <<conn, ch, closed, connRetry, dialed>>
watchVars == <<wpc, wreg, sent>>
linkVars == <<connState, chanState, closedBy>>
countVars == <<nConn, faultsLeft, cycles>>
topoVars == <<topology, declIdx, declaredVia>>
brokerMsgVars == <<queue, held, consumerCh, injected, entered, arrived, removed>>
handlerVars == <<msgs, dpc, cur, taken, herr, outcome, attempts, accepted, lastAck,
                 usedCh, okReturned>>
taskVars == <<tpc, tmsg, analysisID, outputFile, prev, outputPath,
              errorMessage, proc, waited, overran, started, artifact, terr,
              result, published, tattempts, tsends, perr, treturn>>

\* What no step of the messaging client touches.
progVars == <<prog, runs, taskVars>>

vars == <<progVars, pc, clientVars, watchVars, linkVars, countVars,
          topoVars, brokerMsgVars, handlerVars>>

\* --------------------------------------------------------------- topology
\* Strings that are taken apart (routing keys, patterns, file types) are
\* sequences of tokens, "." being a token of its own; s + t is s \o t.
RECURSIVE Words(_)
Words(s) ==
  IF s = <<>> THEN << <<>> >>
  ELSE LET r == Words(Tail(s))
       IN IF Head(s) = "." THEN << <<>> >> \o r
          ELSE << <<Head(s)>> \o Head(r) >> \o Tail(r)

\* Topic exchange: "*" stands for exactly one word of the routing key.
TopicMatch(pattern, key) ==
  LET pw == Words(pattern)
      kw == Words(key)
  IN /\ Len(pw) = Len(kw)
     /\ \A k \in 1..Len(pw) : pw[k] = <<"*">> \/ pw[k] = kw[k]

FileEvents == "biomarker.file.events"
AnalysisEvents == "biomarker.analysis.events"
ResultEvents == "biomarker.result.events"
FileDetected == "file.detected"
AnalysisRequested == "analysis.requested"
AnalysisCompleted == "analysis.completed"
QueueNames == {FileDetected, AnalysisRequested, AnalysisCompleted}
Subscribed == {FileDetected, AnalysisRequested}

KeyPrefix(q) ==
  CASE q = FileDetected -> <<"file", ".", "detected">>
    [] q = AnalysisRequested -> <<"analysis", ".", "requested">>
    [] q = AnalysisCompleted -> <<"analysis", ".", "completed">>

exchanges ==
  << [name |-> FileEvents, kind |-> "topic", durable |-> TRUE, autoDelete |-> FALSE],
     [name |-> AnalysisEvents, kind |-> "topic", durable |-> TRUE, autoDelete |-> FALSE],
     [name |-> ResultEvents, kind |-> "topic", durable |-> TRUE, autoDelete |-> FALSE] >>

queues ==
  << [name |-> FileDetected, durable |-> TRUE, autoDelete |-> FALSE],
     [name |-> AnalysisRequested, durable |-> TRUE, autoDelete |-> FALSE],
     [name |-> AnalysisCompleted, durable |-> TRUE, autoDelete |-> FALSE] >>

bindings ==
  << [queue |-> FileDetected, exchange |-> FileEvents,
      routingKey |-> KeyPrefix(FileDetected) \o <<".", "*">>],
     [queue |-> AnalysisRequested, exchange |-> AnalysisEvents,
      routingKey |-> KeyPrefix(AnalysisRequested) \o <<".", "*">>],
     [queue |-> AnalysisCompleted, exchange |-> ResultEvents,
      routingKey |-> KeyPrefix(AnalysisCompleted) \o <<".", "*">>] >>

\* Variant: the queue loop placed before the exchange loop.
DeclarationsQueuesFirst ==
  [k \in 1..3 |-> [op |-> "QueueDeclare", arg |-> queues[k]]]
  \o [k \in 1..3 |-> [op |-> "ExchangeDeclare", arg |-> exchanges[k]]]
  \o [k \in 1..3 |-> [op |-> "QueueBind", arg |-> bindings[k]]]

\* The declarations in the order SetupInfrastructure's three loops make them.
Declarations ==
  [k \in 1..3 |-> [op |-> "ExchangeDeclare", arg |-> exchanges[k]]]
  \o [k \in 1..3 |-> [op |-> "QueueDeclare", arg |-> queues[k]]]
  \o [k \in 1..3 |-> [op |-> "QueueBind", arg |-> bindings[k]]]

NoTopology == [exchanges |-> {}, queues |-> {}, bindings |-> {}]

\* The queues a topic exchange routes a key to.
Route(exchange, key) ==
  IF exchange \notin {e.name : e \in topology.exchanges} THEN {}
  ELSE {b.queue : b \in {x \in topology.bindings :
                           x.exchange = exchange /\ TopicMatch(x.routingKey, key)}}

\* ------------------------------------------------------------ broker side
\* A channel goes down: the broker puts its unacknowledged deliveries back at
\* the head of their queues.
Requeued(i) ==
  [q \in QueueNames |-> IF consumerCh[q] = i THEN held[q] \o queue[q] ELSE queue[q]]

Released(i) ==
  [q \in QueueNames |-> IF consumerCh[q] = i THEN <<>> ELSE held[q]]

ShutChan(i) ==
  /\ chanState' = [chanState EXCEPT ![i] = IF @ = "none" THEN "none" ELSE "closed"]
  /\ queue' = Requeued(i)
  /\ held' = Released(i)

\* A connection instance goes down: its channel goes with it.
ShutConn(i, who) ==
  /\ connState' = [connState EXCEPT ![i] = "closed"]
  /\ closedBy' = [closedBy EXCEPT ![i] = IF connState[i] = "open" THEN who ELSE @]
  /\ ShutChan(i)

\* c.closed is read and written without synchronisation.  A read that is
\* ordered after Close()'s write by a happens-before edge sees the write; any
\* other read may also still see the initial value.
ReadClosed(ordered) == IF ordered THEN {closed} ELSE {closed, FALSE}

\* ---------------------------------------------------------------- connect
\* amqp.Dial(c.uri)
DialOk(t) ==
  /\ pc[t] = "dial"
  /\ nConn < MaxConn
  /\ nConn' = nConn + 1
  /\ connState' = [connState EXCEPT ![nConn + 1] = "open"]
  /\ dialed' = [dialed EXCEPT ![t] = nConn + 1]
  /\ pc' = [pc EXCEPT ![t] = "channel"]
  /\ UNCHANGED <<progVars, conn, ch, closed, connRetry, watchVars, chanState,
                 closedBy, faultsLeft, cycles, topoVars, brokerMsgVars,
                 handlerVars>>

\* Dial failed: connect() returns the error.  NewRabbitMQClient returns it to
\* main, which exits; reconnectMonitor sleeps and retries.
DialFail(t) ==
  /\ pc[t] = "dial"
  /\ pc' = [pc EXCEPT ![t] = IF t = "main" THEN "fatal" ELSE "sleep"]
  /\ UNCHANGED <<progVars, clientVars, watchVars, linkVars, countVars, topoVars,
                 brokerMsgVars, handlerVars>>

\* conn.Channel() succeeded
ChannelOk(t) ==
  /\ pc[t] = "channel"
  /\ connState[dialed[t]] = "open"
  /\ chanState' = [chanState EXCEPT ![dialed[t]] = "open"]
  /\ pc' = [pc EXCEPT ![t] = "storeConn"]
  /\ UNCHANGED <<progVars, clientVars, watchVars, connState, closedBy, countVars,
                 topoVars, brokerMsgVars, handlerVars>>

\* Variant: the error is returned without closing the dialed connection.
ChannelFailLeak(t) ==
  /\ pc[t] = "channel"
  /\ \/ connState[dialed[t]] = "closed" /\ UNCHANGED faultsLeft
     \/ connState[dialed[t]] = "open" /\ faultsLeft > 0
          /\ faultsLeft' = faultsLeft - 1
  /\ pc' = [pc EXCEPT ![t] = IF t = "main" THEN "fatal" ELSE "sleep"]
  /\ UNCHANGED <<progVars, clientVars, watchVars, linkVars, nConn, cycles,
                 topoVars, brokerMsgVars, handlerVars>>

\* conn.Channel() failed: conn.Close(), return err
ChannelFail(t) ==
  /\ pc[t] = "channel"
  /\ \/ connState[dialed[t]] = "closed" /\ UNCHANGED faultsLeft
     \/ connState[dialed[t]] = "open" /\ faultsLeft > 0
          /\ faultsLeft' = faultsLeft - 1
  /\ ShutConn(dialed[t], "client")
  /\ pc' = [pc EXCEPT ![t] = IF t = "main" THEN "fatal" ELSE "sleep"]
  /\ UNCHANGED <<progVars, clientVars, watchVars, nConn, cycles, topoVars,
                 consumerCh, injected, entered, arrived, removed, handlerVars>>

\* c.conn = conn
StoreConn(t) ==
  /\ pc[t] = "storeConn"
  /\ conn' = dialed[t]
  /\ pc' = [pc EXCEPT ![t] = "storeCh"]
  /\ UNCHANGED <<progVars, ch, closed, connRetry, dialed, watchVars, linkVars,
                 countVars, topoVars, brokerMsgVars, handlerVars>>

\* c.ch = ch; go func() { ... }(); return nil
StoreCh(t) ==
  /\ pc[t] = "storeCh"
  /\ ch' = dialed[t]
  /\ wpc' = [wpc EXCEPT ![dialed[t]] = "start"]
  /\ pc' = [pc EXCEPT ![t] = IF t = "main" THEN "spawn" ELSE "wait"]
  /\ UNCHANGED <<progVars, conn, closed, connRetry, dialed, wreg, sent, linkVars,
                 countVars, topoVars, brokerMsgVars, handlerVars>>

connect(t) ==
  \/ DialOk(t)
  \/ DialFail(t)
  \/ ChannelOk(t)
  \/ ChannelFail(t)
  \/ StoreConn(t)
  \/ StoreCh(t)

\* ------------------------------------------------- close-watcher goroutine
\* c.conn.NotifyClose(make(chan *amqp.Error)): c.conn is read when the
\* goroutine runs.
WatcherRegister(i) ==
  /\ wpc[i] = "start"
  /\ wreg' = [wreg EXCEPT ![i] = conn]
  /\ wpc' = [wpc EXCEPT ![i] = "wait"]
  /\ UNCHANGED <<progVars, pc, clientVars, sent, linkVars, countVars, topoVars,
                 brokerMsgVars, handlerVars>>

\* Variant: the watcher is woken by the closure of the channel.
WatcherWakeOnChannel(i) ==
  /\ wpc[i] = "wait"
  /\ chanState[wreg[i]] = "closed"
  /\ wpc' = [wpc EXCEPT ![i] = "check"]
  /\ UNCHANGED <<progVars, pc, clientVars, wreg, sent, linkVars, countVars,
                 topoVars, brokerMsgVars, handlerVars>>

\* <-NotifyClose: the library closes the notification channel when the
\* connection shuts down, and at once if it already has.
WatcherWake(i) ==
  /\ wpc[i] = "wait"
  /\ connState[wreg[i]] = "closed"
  /\ wpc' = [wpc EXCEPT ![i] = "check"]
  /\ UNCHANGED <<progVars, pc, clientVars, wreg, sent, linkVars, countVars,
                 topoVars, brokerMsgVars, handlerVars>>

\* if !c.closed.  When Close() shut the connection down, its write of c.closed
\* precedes the shutdown, which precedes this receive.
WatcherCheck(i) ==
  /\ wpc[i] = "check"
  /\ \E v \in ReadClosed(closedBy[wreg[i]] = "client") :
       wpc' = [wpc EXCEPT ![i] = IF v THEN "done" ELSE "send"]
  /\ UNCHANGED <<progVars, pc, clientVars, wreg, sent, linkVars, countVars,
                 topoVars, brokerMsgVars, handlerVars>>

\* Variant: a watcher that stays armed after its send and signals again.
WatcherSignalAgain(i) ==
  /\ wpc[i] = "send"
  /\ connRetry < ConnRetryCap
  /\ connRetry' = connRetry + 1
  /\ sent' = [sent EXCEPT ![i] = @ + 1]
  /\ UNCHANGED <<progVars, pc, conn, ch, closed, dialed, wpc, wreg, linkVars,
                 countVars, topoVars, brokerMsgVars, handlerVars>>

\* c.connRetry <- struct{}{}: blocks while the buffer is full
WatcherSignal(i) ==
  /\ wpc[i] = "send"
  /\ connRetry < ConnRetryCap
  /\ connRetry' = connRetry + 1
  /\ sent' = [sent EXCEPT ![i] = @ + 1]
  /\ wpc' = [wpc EXCEPT ![i] = "done"]
  /\ UNCHANGED <<progVars, pc, conn, ch, closed, dialed, wreg, linkVars,
                 countVars, topoVars, brokerMsgVars, handlerVars>>

watcher(i) ==
  \/ WatcherRegister(i)
  \/ WatcherWake(i)
  \/ WatcherCheck(i)
  \/ WatcherSignal(i)

\* -------------------------------------------------------- reconnectMonitor
\* case <-c.connRetry
LoopRecv ==
  /\ pc["loop"] = "wait"
  /\ connRetry > 0
  /\ connRetry' = connRetry - 1
  /\ pc' = [pc EXCEPT !["loop"] = "check"]
  /\ UNCHANGED <<progVars, conn, ch, closed, dialed, watchVars, linkVars,
                 countVars, topoVars, brokerMsgVars, handlerVars>>

\* if c.closed { return }: nothing orders this read after Close()'s write
LoopCheck ==
  /\ pc["loop"] = "check"
  /\ \E v \in ReadClosed(FALSE) :
       /\ pc' = [pc EXCEPT !["loop"] = IF v THEN "done" ELSE "dial"]
       /\ cycles' = IF v THEN cycles ELSE cycles + 1
  /\ UNCHANGED <<progVars, clientVars, watchVars, linkVars, nConn, faultsLeft,
                 topoVars, brokerMsgVars, handlerVars>>

\* Variant: a loop that gives up after a failed attempt.
LoopGiveUp ==
  /\ pc["loop"] = "sleep"
  /\ pc' = [pc EXCEPT !["loop"] = "done"]
  /\ UNCHANGED <<progVars, clientVars, watchVars, linkVars, countVars, topoVars,
                 brokerMsgVars, handlerVars>>

\* time.Sleep(5 * time.Second); continue
LoopSleep ==
  /\ pc["loop"] = "sleep"
  /\ pc' = [pc EXCEPT !["loop"] = "dial"]
  /\ UNCHANGED <<progVars, clientVars, watchVars, linkVars, countVars, topoVars,
                 brokerMsgVars, handlerVars>>

reconnectMonitor ==
  \/ LoopRecv
  \/ LoopCheck
  \/ connect("loop")
  \/ LoopSleep

\* -------------------------------------------------------- NewRabbitMQClient
\* Variant: the loop goroutine makes the signal channel when it starts, so
\* whatever was sent before is gone.
NewReturnFreshChannel ==
  /\ pc["main"] = "spawn"
  /\ pc' = [pc EXCEPT !["main"] = "setup", !["loop"] = "wait"]
  /\ connRetry' = 0
  /\ UNCHANGED <<progVars, conn, ch, closed, dialed, watchVars, linkVars,
                 countVars, topoVars, brokerMsgVars, handlerVars>>

\* go client.reconnectMonitor(); return client, nil
NewReturn ==
  /\ pc["main"] = "spawn"
  /\ pc' = [pc EXCEPT !["main"] = "setup", !["loop"] = "wait"]
  /\ UNCHANGED <<progVars, clientVars, watchVars, linkVars, countVars, topoVars,
                 brokerMsgVars, handlerVars>>

NewRabbitMQClient ==
  \/ connect("main")
  \/ NewReturn

\* ----------------------------------------------------- SetupInfrastructure
Declared(d) ==
  CASE d.op = "ExchangeDeclare" -> [topology EXCEPT !.exchanges = @ \cup {d.arg}]
    [] d.op = "QueueDeclare" -> [topology EXCEPT !.queues = @ \cup {d.arg}]
    [] d.op = "QueueBind" -> [topology EXCEPT !.bindings = @ \cup {d.arg}]

\* Variant: a broker that refuses to declare what already exists.
DeclarableOnce(d) ==
  CASE d.op = "ExchangeDeclare" ->
         d.arg.name \notin {x.name : x \in topology.exchanges}
    [] d.op = "QueueDeclare" ->
         d.arg.name \notin {x.name : x \in topology.queues}
    [] d.op = "QueueBind" ->
         /\ d.arg.queue \in {x.name : x \in topology.queues}
         /\ d.arg.exchange \in {x.name : x \in topology.exchanges}
         /\ d.arg \notin topology.bindings

\* The broker accepts the declaration of an exchange or a queue that exists
\* only with the parameters it was declared with, and refuses to bind a
\* queue or an exchange it does not know.
Declarable(d) ==
  CASE d.op = "ExchangeDeclare" ->
         \A x \in topology.exchanges : x.name = d.arg.name => x = d.arg
    [] d.op = "QueueDeclare" ->
         \A x \in topology.queues : x.name = d.arg.name => x = d.arg
    [] d.op = "QueueBind" ->
         /\ d.arg.queue \in {x.name : x \in topology.queues}
         /\ d.arg.exchange \in {x.name : x \in topology.exchanges}

\* One c.ch.ExchangeDeclare / QueueDeclare / QueueBind call that succeeds;
\* after the last one, return nil.
DeclareOk ==
  /\ pc["main"] = "setup"
  /\ chanState[ch] = "open"
  /\ Declarable(Declarations[declIdx])
  /\ topology' = Declared(Declarations[declIdx])
  /\ declaredVia' = [declaredVia EXCEPT ![ch] = @ \cup {declIdx}]
  /\ declIdx' = declIdx + 1
  /\ pc' = [pc EXCEPT !["main"] =
              IF declIdx < Len(Declarations) THEN "setup"
              ELSE IF prog = "worker" THEN "subscribe" ELSE "run"]
  /\ UNCHANGED <<progVars, clientVars, watchVars, linkVars, countVars,
                 brokerMsgVars, handlerVars>>

\* Variant: a failed declaration is passed over and the loops go on.
DeclareSkip ==
  /\ pc["main"] = "setup"
  /\ chanState[ch] # "open" \/ ~Declarable(Declarations[declIdx])
  /\ declIdx' = declIdx + 1
  /\ pc' = [pc EXCEPT !["main"] =
              IF declIdx < Len(Declarations) THEN "setup"
              ELSE IF prog = "worker" THEN "subscribe" ELSE "run"]
  /\ UNCHANGED <<progVars, clientVars, watchVars, linkVars, countVars,
                 topology, declaredVia, brokerMsgVars, handlerVars>>

\* A call that fails: return err, and main ends in log.Fatalf.
DeclareFail ==
  /\ pc["main"] = "setup"
  /\ chanState[ch] # "open" \/ ~Declarable(Declarations[declIdx])
  /\ pc' = [pc EXCEPT !["main"] = "fatal"]
  /\ UNCHANGED <<progVars, clientVars, watchVars, linkVars, countVars, topoVars,
                 brokerMsgVars, handlerVars>>

SetupInfrastructure ==
  \/ DeclareOk
  \/ DeclareFail

\* -------------------------------------------------------------- Subscribe
\* Variant: a consumer opened with automatic acknowledgment.
autoAckOn == TRUE

\* c.ch.Consume(queue, "", false, ...): the autoAck argument
autoAck == FALSE

\* The worker's main subscribes to file.detected, then analysis.requested.
subscriptions == <<FileDetected, AnalysisRequested>>

NextSubscription ==
  LET done == {k \in 1..Len(subscriptions) : dpc[subscriptions[k]] # "off"}
  IN Cardinality(done) + 1

\* Consume succeeded: go func() { for msg := range msgs ... }(); return nil
SubscribeOk ==
  /\ pc["main"] = "subscribe"
  /\ chanState[ch] = "open"
  /\ LET q == subscriptions[NextSubscription]
     IN /\ q \in {x.name : x \in topology.queues}
        /\ consumerCh' = [consumerCh EXCEPT ![q] = ch]
        /\ dpc' = [dpc EXCEPT ![q] = "recv"]
  /\ pc' = [pc EXCEPT !["main"] =
              IF NextSubscription < Len(subscriptions) THEN "subscribe"
              ELSE "block"]
  /\ UNCHANGED <<progVars, clientVars, watchVars, linkVars, countVars, topoVars,
                 queue, held, injected, entered, arrived, removed, msgs, cur, taken, herr,
                 outcome, attempts, accepted, lastAck, usedCh, okReturned>>

\* Consume failed: return err, and main ends in log.Fatalf.
SubscribeFail ==
  /\ pc["main"] = "subscribe"
  /\ chanState[ch] # "open"
  /\ pc' = [pc EXCEPT !["main"] = "fatal"]
  /\ UNCHANGED <<progVars, clientVars, watchVars, linkVars, countVars, topoVars,
                 brokerMsgVars, handlerVars>>

Subscribe ==
  \/ SubscribeOk
  \/ SubscribeFail

\* ----------------------------------------------------------- PublishEvent
\* c.ch.PublishWithContext on an open channel: the exchange routes the event.
Enqueue(exchange, key, event) ==
  [q \in QueueNames |->
     IF q \in Route(exchange, key) THEN Append(queue[q], event) ELSE queue[q]]

Arrivals(exchange, key, event) ==
  {<<q, event.id>> : q \in Route(exchange, key)}

Arrive(exchange, key, event) ==
  [q \in QueueNames |->
     IF q \in Route(exchange, key) THEN Append(arrived[q], event.id)
     ELSE arrived[q]]

\* -------------------------------------------------- the delivery goroutine
NoMsg == [id |-> 0, ok |-> FALSE, fileType |-> <<>>, status |-> ""]

Without(s, m) == SelectSeq(s, LAMBDA x : x.id # m.id)

\* The handler of q gets message m: recorded the first time only.
FirstTake(q, m) ==
  IF \E k \in 1..Len(taken[q]) : taken[q][k] = m.id THEN taken
  ELSE [taken EXCEPT ![q] = Append(@, m.id)]

\* Variant: the loop takes the newest delivery of the channel.
LoopTakeNewest(q) ==
  /\ dpc[q] = "recv"
  /\ msgs[q] # <<>>
  /\ cur' = [cur EXCEPT ![q] = msgs[q][Len(msgs[q])]]
  /\ taken' = FirstTake(q, msgs[q][Len(msgs[q])])
  /\ msgs' = [msgs EXCEPT ![q] = SubSeq(@, 1, Len(@) - 1)]
  /\ herr' = [herr EXCEPT ![q] = FALSE]
  /\ outcome' = [outcome EXCEPT ![q] = ""]
  /\ attempts' = [attempts EXCEPT ![q] = 0]
  /\ accepted' = [accepted EXCEPT ![q] = <<>>]
  /\ lastAck' = [lastAck EXCEPT ![q] = <<>>]
  /\ dpc' = [dpc EXCEPT ![q] = "unmarshal"]
  /\ UNCHANGED <<progVars, pc, clientVars, watchVars, linkVars, countVars,
                 topoVars, brokerMsgVars, usedCh, okReturned>>

\* Variant: one goroutine serves both subscriptions.
LoopTakeShared(q) ==
  /\ dpc[q] = "recv"
  /\ \A r \in Subscribed \ {q} :
       dpc[r] \notin {"unmarshal", "execute", "publish", "ack"}
  /\ msgs[q] # <<>>
  /\ cur' = [cur EXCEPT ![q] = Head(msgs[q])]
  /\ taken' = FirstTake(q, Head(msgs[q]))
  /\ msgs' = [msgs EXCEPT ![q] = Tail(@)]
  /\ herr' = [herr EXCEPT ![q] = FALSE]
  /\ outcome' = [outcome EXCEPT ![q] = ""]
  /\ attempts' = [attempts EXCEPT ![q] = 0]
  /\ accepted' = [accepted EXCEPT ![q] = <<>>]
  /\ lastAck' = [lastAck EXCEPT ![q] = <<>>]
  /\ dpc' = [dpc EXCEPT ![q] = "unmarshal"]
  /\ UNCHANGED <<progVars, pc, clientVars, watchVars, linkVars, countVars,
                 topoVars, brokerMsgVars, usedCh, okReturned>>

\* for msg := range msgs: the next iteration, with fresh variables
LoopTake(q) ==
  /\ dpc[q] = "recv"
  /\ msgs[q] # <<>>
  /\ cur' = [cur EXCEPT ![q] = Head(msgs[q])]
  /\ taken' = FirstTake(q, Head(msgs[q]))
  /\ msgs' = [msgs EXCEPT ![q] = Tail(@)]
  /\ herr' = [herr EXCEPT ![q] = FALSE]
  /\ outcome' = [outcome EXCEPT ![q] = ""]
  /\ attempts' = [attempts EXCEPT ![q] = 0]
  /\ accepted' = [accepted EXCEPT ![q] = <<>>]
  /\ lastAck' = [lastAck EXCEPT ![q] = <<>>]
  /\ dpc' = [dpc EXCEPT ![q] = "unmarshal"]
  /\ UNCHANGED <<progVars, pc, clientVars, watchVars, linkVars, countVars,
                 topoVars, brokerMsgVars, usedCh, okReturned>>

\* The library closes msgs when the channel shuts down, dropping what it had
\* buffered: the range loop ends and the goroutine returns.
LoopEnd(q) ==
  /\ dpc[q] = "recv"
  /\ chanState[consumerCh[q]] # "open"
  /\ dpc' = [dpc EXCEPT ![q] = "done"]
  /\ msgs' = [msgs EXCEPT ![q] = <<>>]
  /\ UNCHANGED <<progVars, pc, clientVars, watchVars, linkVars, countVars,
                 topoVars, brokerMsgVars, cur, taken, herr, outcome, attempts,
                 accepted, lastAck, usedCh, okReturned>>

\* Variant: a body that cannot be decoded is logged and the handler returns nil.
UnmarshalSwallow(q) ==
  /\ dpc[q] = "unmarshal"
  /\ herr' = [herr EXCEPT ![q] = FALSE]
  /\ dpc' = [dpc EXCEPT ![q] =
               IF ~cur[q].ok THEN "ack"
               ELSE IF q = AnalysisRequested THEN "execute" ELSE "publish"]
  /\ UNCHANGED <<progVars, pc, clientVars, watchVars, linkVars, countVars,
                 topoVars, brokerMsgVars, msgs, cur, taken, outcome, attempts,
                 accepted, lastAck, usedCh, okReturned>>

\* json.Unmarshal(data, &event) in either handler
Unmarshal(q) ==
  /\ dpc[q] = "unmarshal"
  /\ herr' = [herr EXCEPT ![q] = ~cur[q].ok]
  /\ dpc' = [dpc EXCEPT ![q] =
               IF ~cur[q].ok THEN "ack"
               ELSE IF q = AnalysisRequested THEN "execute" ELSE "publish"]
  /\ UNCHANGED <<progVars, pc, clientVars, watchVars, linkVars, countVars,
                 topoVars, brokerMsgVars, msgs, cur, taken, outcome, attempts,
                 accepted, lastAck, usedCh, okReturned>>

\* analyzerService.ExecuteAnalysis(requestEvent.FilePath): the file type is
\* checked before anything is run.
Supported == {<<".", "csv">>, <<".", "sas7bdat">>}

Outcomes(fileType) ==
  IF fileType \in Supported THEN {"success", "failed", "timeout"} ELSE {"failed"}

ExecuteAnalysis ==
  /\ dpc[AnalysisRequested] = "execute"
  /\ \E o \in Outcomes(cur[AnalysisRequested].fileType) :
       outcome' = [outcome EXCEPT ![AnalysisRequested] = o]
  /\ dpc' = [dpc EXCEPT ![AnalysisRequested] = "publish"]
  /\ UNCHANGED <<progVars, pc, clientVars, watchVars, linkVars, countVars,
                 topoVars, brokerMsgVars, msgs, cur, taken, herr, attempts, accepted,
                 lastAck, usedCh, okReturned>>

\* ExecuteAnalysis returns a nil error on success only; the handler writes
\* "failed" whenever the error is not nil.
CompletedStatus(o) == IF o = "success" THEN "success" ELSE "failed"

\* The event a handler publishes, its exchange and its routing key.
EventOf(q) ==
  IF q = FileDetected
    THEN [exchange |-> AnalysisEvents,
          key |-> KeyPrefix(AnalysisRequested) \o cur[q].fileType,
          event |-> [id |-> cur[q].id, ok |-> TRUE,
                     fileType |-> cur[q].fileType, status |-> ""]]
    ELSE [exchange |-> ResultEvents,
          key |-> KeyPrefix(AnalysisCompleted) \o cur[q].fileType,
          event |-> [id |-> cur[q].id, ok |-> TRUE,
                     fileType |-> cur[q].fileType,
                     status |-> CompletedStatus(outcome[q])]]

\* rabbitMQ.PublishEvent(...) returned nil, and the handler returns nil.
PublishOk(q) ==
  /\ dpc[q] = "publish"
  /\ chanState[ch] = "open"
  /\ LET e == EventOf(q)
     IN /\ queue' = Enqueue(e.exchange, e.key, e.event)
        /\ entered' = entered \cup Arrivals(e.exchange, e.key, e.event)
        /\ arrived' = Arrive(e.exchange, e.key, e.event)
        /\ accepted' = [accepted EXCEPT ![q] = Append(@, e.event)]
  /\ attempts' = [attempts EXCEPT ![q] = @ + 1]
  /\ usedCh' = usedCh \cup {ch}
  /\ herr' = [herr EXCEPT ![q] = FALSE]
  /\ okReturned' = okReturned \cup {<<q, cur[q].id>>}
  /\ dpc' = [dpc EXCEPT ![q] = "ack"]
  /\ UNCHANGED <<progVars, pc, clientVars, watchVars, linkVars, countVars,
                 topoVars, held, consumerCh, injected, removed, msgs, cur, taken,
                 outcome, lastAck>>

\* Variant: the handler logs a failed publish and returns nil.
PublishErrSwallowed(q) ==
  /\ dpc[q] = "publish"
  /\ chanState[ch] # "open"
  /\ attempts' = [attempts EXCEPT ![q] = @ + 1]
  /\ herr' = [herr EXCEPT ![q] = FALSE]
  /\ dpc' = [dpc EXCEPT ![q] = "ack"]
  /\ UNCHANGED <<progVars, pc, clientVars, watchVars, linkVars, countVars,
                 topoVars, brokerMsgVars, msgs, cur, taken, outcome, accepted,
                 lastAck, usedCh, okReturned>>

\* PublishEvent returned the channel's error, and the handler returns it.
PublishErr(q) ==
  /\ dpc[q] = "publish"
  /\ chanState[ch] # "open"
  /\ attempts' = [attempts EXCEPT ![q] = @ + 1]
  /\ herr' = [herr EXCEPT ![q] = TRUE]
  /\ dpc' = [dpc EXCEPT ![q] = "ack"]
  /\ UNCHANGED <<progVars, pc, clientVars, watchVars, linkVars, countVars,
                 topoVars, brokerMsgVars, msgs, cur, taken, outcome, accepted,
                 lastAck, usedCh, okReturned>>

\* Variant: a loop that acknowledges whatever the handler returned.
AckAlways(err) ==
  << [op |-> "Ack", multiple |-> FALSE, requeue |-> FALSE] >>

\* Variant: a failed message is rejected without requeue.
NackDiscard(err) ==
  IF err THEN << [op |-> "Nack", multiple |-> FALSE, requeue |-> FALSE] >>
  ELSE << [op |-> "Ack", multiple |-> FALSE, requeue |-> FALSE] >>

\* if err != nil { msg.Nack(false, true) } else { msg.Ack(false) }
AckCalls(err) ==
  IF err THEN << [op |-> "Nack", multiple |-> FALSE, requeue |-> TRUE] >>
  ELSE << [op |-> "Ack", multiple |-> FALSE, requeue |-> FALSE] >>

\* What the broker does with one call on a delivery it still holds: an ack and
\* a nack without requeue drop the message, a nack with requeue puts it back.
Settle(q, call) ==
  IF cur[q].id \notin {m.id : m \in {held[q][k] : k \in 1..Len(held[q])}}
    THEN UNCHANGED <<queue, held, removed>>
    ELSE /\ held' = [held EXCEPT ![q] = Without(@, cur[q])]
         /\ IF call.op = "Nack" /\ call.requeue
              THEN /\ queue' = [queue EXCEPT ![q] = <<cur[q]>> \o @]
                   /\ UNCHANGED removed
              ELSE /\ removed' = removed \cup {<<q, cur[q].id>>}
                   /\ UNCHANGED queue

\* The calls reach the broker only over an open channel; on a closed one they
\* return an error, which the loop ignores.
Acknowledge(q) ==
  /\ dpc[q] = "ack"
  /\ lastAck' = [lastAck EXCEPT ![q] = @ \o AckCalls(herr[q])]
  /\ IF chanState[consumerCh[q]] = "open" /\ Len(AckCalls(herr[q])) = 1
       THEN Settle(q, AckCalls(herr[q])[1])
       ELSE UNCHANGED <<queue, held, removed>>
  /\ dpc' = [dpc EXCEPT ![q] = "recv"]
  /\ UNCHANGED <<progVars, pc, clientVars, watchVars, linkVars, countVars,
                 topoVars, consumerCh, injected, entered, arrived, msgs, cur, taken, herr,
                 outcome, attempts, accepted, usedCh, okReturned>>

handler(q) ==
  \/ Unmarshal(q)
  \/ PublishOk(q)
  \/ PublishErr(q)

delivery(q) ==
  \/ LoopTake(q)
  \/ LoopEnd(q)
  \/ handler(q)
  \/ Acknowledge(q)

\* ------------------------------------------------------------------ Close
\* Variant: a Close() that closes without raising the flag first.
CloseWithoutFlag ==
  /\ pc["main"] = "run"
  /\ pc' = [pc EXCEPT !["main"] = "closeCh"]
  /\ UNCHANGED <<progVars, clientVars, watchVars, linkVars, countVars, topoVars,
                 brokerMsgVars, handlerVars>>

\* c.closed = true
CloseSetFlag ==
  /\ pc["main"] = "run"
  /\ closed' = TRUE
  /\ pc' = [pc EXCEPT !["main"] = "closeCh"]
  /\ UNCHANGED <<progVars, conn, ch, connRetry, dialed, watchVars, linkVars,
                 countVars, topoVars, brokerMsgVars, handlerVars>>

\* if c.ch != nil { c.ch.Close() }
CloseCh ==
  /\ pc["main"] = "closeCh"
  /\ IF ch # 0
       THEN ShutChan(ch)
       ELSE UNCHANGED <<chanState, queue, held>>
  /\ pc' = [pc EXCEPT !["main"] = "closeConn"]
  /\ UNCHANGED <<progVars, clientVars, watchVars, connState, closedBy, countVars,
                 topoVars, consumerCh, injected, entered, arrived, removed,
                 handlerVars>>

\* if c.conn != nil { return c.conn.Close() }
CloseConn ==
  /\ pc["main"] = "closeConn"
  /\ IF conn # 0
       THEN ShutConn(conn, "client")
       ELSE UNCHANGED <<linkVars, queue, held>>
  /\ pc' = [pc EXCEPT !["main"] = "returned"]
  /\ UNCHANGED <<progVars, clientVars, watchVars, countVars, topoVars,
                 consumerCh, injected, entered, arrived, removed, handlerVars>>

Close ==
  \/ CloseSetFlag
  \/ CloseCh
  \/ CloseConn

\* main has returned, or log.Fatalf has called os.Exit: every goroutine stops
\* and the operating system closes the sockets.
Exit ==
  /\ pc["main"] \in {"fatal", "returned"}
  /\ pc' = [t \in Threads |-> "exited"]
  /\ wpc' = [i \in ConnIds |-> IF wpc[i] = "none" THEN "none" ELSE "exited"]
  /\ dpc' = [q \in Subscribed |-> IF dpc[q] = "off" THEN "off" ELSE "exited"]
  /\ connState' = [i \in ConnIds |-> IF connState[i] = "open" THEN "closed" ELSE connState[i]]
  /\ chanState' = [i \in ConnIds |-> IF chanState[i] = "open" THEN "closed" ELSE chanState[i]]
  /\ closedBy' = [i \in ConnIds |-> IF connState[i] = "open" THEN "exit" ELSE closedBy[i]]
  /\ queue' = [q \in QueueNames |-> held[q] \o queue[q]]
  /\ held' = [q \in QueueNames |-> <<>>]
  /\ UNCHANGED <<progVars, clientVars, wreg, sent, countVars, topoVars,
                 consumerCh, injected, entered, arrived, removed, msgs, cur, taken, herr,
                 outcome, attempts, accepted, lastAck, usedCh, okReturned>>

\* The process is started again: a new client, the same broker.
Restart ==
  /\ pc["main"] = "exited"
  /\ runs < MaxRuns
  /\ runs' = runs + 1
  /\ pc' = [t \in Threads |-> IF t = "main" THEN "dial" ELSE "off"]
  /\ conn' = 0
  /\ ch' = 0
  /\ closed' = FALSE
  /\ connRetry' = 0
  /\ dialed' = [t \in Threads |-> 0]
  /\ declIdx' = 1
  /\ UNCHANGED <<prog, taskVars, watchVars, linkVars, countVars, topology,
                 declaredVia, brokerMsgVars, handlerVars>>

\* ------------------------------------------------------------- the broker
\* The network or the broker drops a connection the client did not close.
BrokerDropConn(i) ==
  /\ connState[i] = "open"
  /\ faultsLeft > 0
  /\ faultsLeft' = faultsLeft - 1
  /\ ShutConn(i, "broker")
  /\ UNCHANGED <<progVars, pc, clientVars, watchVars, nConn, cycles, topoVars,
                 consumerCh, injected, entered, arrived, removed, handlerVars>>

\* The broker closes a channel alone (a channel-level exception); the
\* connection stays up.
BrokerDropChan(i) ==
  /\ connState[i] = "open"
  /\ chanState[i] = "open"
  /\ faultsLeft > 0
  /\ faultsLeft' = faultsLeft - 1
  /\ ShutChan(i)
  /\ UNCHANGED <<progVars, pc, clientVars, watchVars, connState, closedBy,
                 nConn, cycles, topoVars, consumerCh, injected, entered, arrived,
                 removed, handlerVars>>

\* The broker pushes the head of a queue to its consumer.  With autoAck the
\* message would be gone at once; without, the broker holds it until settled.
BrokerDeliver(q) ==
  /\ consumerCh[q] # 0
  /\ chanState[consumerCh[q]] = "open"
  /\ queue[q] # <<>>
  /\ queue' = [queue EXCEPT ![q] = Tail(@)]
  /\ msgs' = [msgs EXCEPT ![q] = Append(@, Head(queue[q]))]
  /\ IF autoAck
       THEN removed' = removed \cup {<<q, Head(queue[q]).id>>} /\ UNCHANGED held
       ELSE held' = [held EXCEPT ![q] = Append(@, Head(queue[q]))] /\ UNCHANGED removed
  /\ UNCHANGED <<progVars, pc, clientVars, watchVars, linkVars, countVars,
                 topoVars, consumerCh, injected, entered, arrived, dpc, cur, taken, herr,
                 outcome, attempts, accepted, lastAck, usedCh, okReturned>>

\* The payloads that arrive on file.detected: the event the file watcher
\* builds for a file of a supported type, and one json.Unmarshal rejects.
Payloads ==
  {[ok |-> TRUE, fileType |-> <<".", "csv">>],
   [ok |-> FALSE, fileType |-> <<>>]}

\* The file watcher process publishes the next FileDetected message over its
\* own connection (cmd/file-watcher/main.go: "file.detected" + ext).
PublishFileDetected ==
  /\ injected < MaxMsgs
  /\ \E p \in Payloads :
       LET m == [id |-> injected + 1, ok |-> p.ok, fileType |-> p.fileType,
                 status |-> ""]
           key == KeyPrefix(FileDetected)
                    \o (IF p.ok THEN p.fileType ELSE <<".", "csv">>)
       IN /\ Route(FileEvents, key) # {}
          /\ queue' = Enqueue(FileEvents, key, m)
          /\ entered' = entered \cup Arrivals(FileEvents, key, m)
          /\ arrived' = Arrive(FileEvents, key, m)
  /\ injected' = injected + 1
  /\ UNCHANGED <<progVars, pc, clientVars, watchVars, linkVars, countVars,
                 topoVars, held, consumerCh, removed, handlerVars>>

\* One message put on a subscribed queue through its exchange by whoever
\* publishes there (the file watcher on file.detected; a second worker or an
\* operator on analysis.requested): a well-formed event or a body that
\* json.Unmarshal rejects.  At most one per queue.
PublisherId(q) == IF q = FileDetected THEN 1 ELSE 2

ExchangeOf(q) == IF q = FileDetected THEN FileEvents ELSE AnalysisEvents

PublishTo(q) ==
  /\ <<q, PublisherId(q)>> \notin entered
  /\ \E p \in Payloads :
       LET m == [id |-> PublisherId(q), ok |-> p.ok, fileType |-> p.fileType,
                 status |-> ""]
           key == KeyPrefix(q) \o <<".", "csv">>
       IN /\ Route(ExchangeOf(q), key) = {q}
          /\ queue' = Enqueue(ExchangeOf(q), key, m)
          /\ entered' = entered \cup Arrivals(ExchangeOf(q), key, m)
          /\ arrived' = Arrive(ExchangeOf(q), key, m)
  /\ UNCHANGED <<progVars, pc, clientVars, watchVars, linkVars, countVars,
                 topoVars, held, consumerCh, injected, removed, handlerVars>>

\* ---------------------------------------------------------- event chain
\* One call of a worker handler at a time, with ExecuteAnalysis and
\* runWithTimeout taken step by step.  The broker is only the answer
\* PublishEvent gives.

messagingVars == <<pc, clientVars, watchVars, linkVars, countVars, topoVars,
                   brokerMsgVars, handlerVars>>

\* File paths, as token sequences.
Paths ==
  { <<"a", ".", "csv">>, <<"b", ".", "sas7bdat">>, <<"c", ".", "txt">>, <<"d">> }

\* filepath.Ext: the suffix that starts at the last dot, "" without a dot.
Ext(path) ==
  LET dots == {k \in 1..Len(path) : path[k] = "."}
  IN IF dots = {} THEN <<>>
     ELSE SubSeq(path, CHOOSE k \in dots : \A j \in dots : j <= k, Len(path))

\* The bodies a handler can be called with: the event built for a path (the
\* file watcher sets FileType to the path's extension), and one that
\* json.Unmarshal rejects.
TaskMsgs ==
  { [queue |-> q, ok |-> TRUE, filePath |-> f, fileType |-> Ext(f)] :
      q \in Subscribed, f \in Paths }
  \cup { [queue |-> q, ok |-> FALSE, filePath |-> <<>>, fileType |-> <<>>] :
           q \in Subscribed }

NoTaskMsg == [queue |-> "", ok |-> FALSE, filePath |-> <<>>, fileType |-> <<>>]

\* uuid.New().String(): the first eight characters, which the artifact name
\* uses, and the rest.
Uuids == {<<h, r>> : h \in {"1f0c3a9e", "7b22d4c1"}, r \in {"-a", "-b"}}

NoId == <<>>

\* baseFileName[:len(baseFileName)-len(filepath.Ext(baseFileName))]
Stem(path) == SubSeq(path, 1, Len(path) - Len(Ext(path)))

\* outputFile: <outputDir of the date>/analysis_<stem>_<analysisID[:8]>.html
OutputFileOf(path, id) ==
  [dir |-> "biomarker-analysis/<date>", stem |-> Stem(path), short |-> id[1]]

\* The empty path.
NoFile == [dir |-> "", stem |-> <<>>, short |-> ""]

NoRun == [filePath |-> <<>>, analysisID |-> NoId, outputFile |-> NoFile]

InitTask ==
  /\ tpc = "idle"
  /\ tmsg = NoTaskMsg
  /\ analysisID = NoId
  /\ outputFile = NoFile
  /\ prev = NoRun
  /\ outputPath = NoFile
  /\ errorMessage = ""
  /\ proc = "none"
  /\ waited = FALSE
  /\ overran = FALSE
  /\ started = 0
  /\ artifact = FALSE
  /\ terr = ""
  /\ result = ""
  /\ published = <<>>
  /\ tattempts = 0
  /\ tsends = 0
  /\ perr = ""
  /\ treturn = ""

\* err := handler(msg.Body), for the next message of either queue
HandlerCall ==
  /\ tpc \in {"idle", "returned"}
  /\ \E m \in TaskMsgs : tmsg' = m
  /\ tpc' = "unmarshal"
  /\ prev' = IF outputFile = NoFile THEN prev
             ELSE [filePath |-> tmsg.filePath, analysisID |-> analysisID,
                   outputFile |-> outputFile]
  /\ analysisID' = NoId
  /\ outputFile' = NoFile
  /\ outputPath' = NoFile
  /\ errorMessage' = ""
  /\ proc' = "none"
  /\ waited' = FALSE
  /\ overran' = FALSE
  /\ started' = 0
  /\ artifact' = FALSE
  /\ terr' = ""
  /\ result' = ""
  /\ published' = <<>>
  /\ tattempts' = 0
  /\ tsends' = 0
  /\ perr' = ""
  /\ treturn' = ""
  /\ UNCHANGED <<prog, runs, messagingVars>>

\* json.Unmarshal(data, &fileEvent) / json.Unmarshal(data, &requestEvent)
Decode ==
  /\ tpc = "unmarshal"
  /\ IF ~tmsg.ok
       THEN tpc' = "returned" /\ treturn' = "err"
       ELSE /\ tpc' = IF tmsg.queue = FileDetected THEN "publishRequest"
                      ELSE "mkdir"
            /\ UNCHANGED treturn
  /\ UNCHANGED <<prog, runs, tmsg, analysisID, outputFile, prev, proc,
                 waited, overran, started, artifact, terr, result,
                 outputPath, errorMessage, published, tattempts,
                 tsends, perr, messagingVars>>

\* Variant: a send that failed is repeated once.
PublishEventRetry(e) ==
  { [sends |-> 0, put |-> <<>>, err |-> "marshal"],
    [sends |-> 1, put |-> <<e>>, err |-> ""],
    [sends |-> 2, put |-> <<e>>, err |-> ""],
    [sends |-> 2, put |-> <<>>, err |-> "publish"] }

\* PublishEvent, as its caller sees it: json.Marshal(event), which fails for a
\* value it cannot encode, then one c.ch.PublishWithContext whose error is
\* returned.  sends counts the PublishWithContext calls, put is what the
\* exchange received.
PublishEvent(e) ==
  { [sends |-> 0, put |-> <<>>, err |-> "marshal"],
    [sends |-> 1, put |-> <<>>, err |-> "publish"],
    [sends |-> 1, put |-> <<e>>, err |-> ""] }

\* Variant: a routing key without the file type.
RequestOfBareKey(m) ==
  [exchange |-> AnalysisEvents,
   key |-> KeyPrefix(AnalysisRequested),
   event |-> [kind |-> "AnalysisRequested", filePath |-> m.filePath,
              fileType |-> m.fileType]]

\* requestEvent and routingKey of handleFileDetectedEvent
RequestOf(m) ==
  [exchange |-> AnalysisEvents,
   key |-> KeyPrefix(AnalysisRequested) \o m.fileType,
   event |-> [kind |-> "AnalysisRequested", filePath |-> m.filePath,
              fileType |-> m.fileType]]

\* rabbitMQ.PublishEvent(ctx, "biomarker.analysis.events", ...): the handler
\* returns nil when it succeeds and the error when it fails.
PublishRequest ==
  /\ tpc = "publishRequest"
  /\ tattempts' = tattempts + 1
  /\ \E r \in PublishEvent(RequestOf(tmsg)) :
       /\ published' = published \o r.put
       /\ tsends' = tsends + r.sends
       /\ perr' = r.err
       /\ treturn' = IF r.err = "" THEN "nil" ELSE "err"
  /\ tpc' = "returned"
  /\ UNCHANGED <<prog, runs, tmsg, analysisID, outputFile, prev, proc,
                 waited, overran, started, artifact, terr, result,
                 outputPath, errorMessage, messagingVars>>

handleFileDetectedEvent ==
  \/ Decode
  \/ PublishRequest

\* createFailedResult(...).Status
createFailedResult == "failed"

\* Variant: a failed result that keeps the path the output was meant for.
FailedKeepsPath(e) ==
  /\ terr' = e
  /\ result' = createFailedResult
  /\ outputPath' = outputFile
  /\ errorMessage' = e
  /\ tpc' = "publishCompleted"

\* return createFailedResult(analysisID, filePath, msg), err
Failed(e) ==
  /\ terr' = e
  /\ result' = createFailedResult
  /\ outputPath' = NoFile
  /\ errorMessage' = e
  /\ tpc' = "publishCompleted"

\* analysisID := uuid.New().String(); os.MkdirAll(outputDir, 0755); outputFile
MkdirAll ==
  /\ tpc = "mkdir"
  /\ \E id \in Uuids :
       /\ analysisID' = id
       /\ \/ /\ tpc' = "ext"
             /\ outputFile' = OutputFileOf(tmsg.filePath, id)
             /\ UNCHANGED <<terr, result, outputPath, errorMessage>>
          \/ Failed("mkdir") /\ UNCHANGED outputFile
  /\ UNCHANGED <<prog, runs, tmsg, prev, proc,
                 waited, overran, started, artifact, published,
                 tattempts, tsends, perr, treturn, messagingVars>>

\* Variant: no file type is turned away.
CheckExtSkipped ==
  /\ tpc = "ext"
  /\ tpc' = "script"
  /\ UNCHANGED <<prog, runs, tmsg, analysisID, outputFile, prev, proc,
                 waited, overran, started, artifact, terr, result,
                 outputPath, errorMessage, published, tattempts,
                 tsends, perr, treturn, messagingVars>>

\* if fileExt != ".csv" && fileExt != ".sas7bdat" { return ... }
CheckExt ==
  /\ tpc = "ext"
  /\ IF Ext(tmsg.filePath) \in Supported
       THEN tpc' = "script" /\ UNCHANGED <<terr, result, outputPath, errorMessage>>
       ELSE Failed("unsupported")
  /\ UNCHANGED <<prog, runs, tmsg, analysisID, outputFile, prev, proc,
                 waited, overran, started, artifact, published,
                 tattempts, tsends, perr, treturn, messagingVars>>

\* os.Stat(scriptPath)
StatScript ==
  /\ tpc = "script"
  /\ \/ tpc' = "start" /\ UNCHANGED <<terr, result, outputPath, errorMessage>>
     \/ Failed("script")
  /\ UNCHANGED <<prog, runs, tmsg, analysisID, outputFile, prev, proc,
                 waited, overran, started, artifact, published,
                 tattempts, tsends, perr, treturn, messagingVars>>

\* cmd.Start(), and on success go func() { done <- cmd.Wait() }()
CmdStart ==
  /\ tpc = "start"
  /\ \/ /\ proc' = "running"
        /\ started' = started + 1
        /\ tpc' = "select"
        /\ UNCHANGED <<terr, result, outputPath, errorMessage>>
     \/ Failed("start") /\ UNCHANGED <<proc, started>>
  /\ UNCHANGED <<prog, runs, tmsg, analysisID, outputFile, prev, waited,
                 overran, artifact, published, tattempts, tsends,
                 perr, treturn, messagingVars>>

\* The R process ends by itself, with either exit status and with or
\* without having written the output file.
ProcessExits ==
  /\ proc = "running"
  /\ \E code \in {"zero", "nonzero"} : proc' = code
  /\ \E written \in BOOLEAN : artifact' = written
  /\ UNCHANGED <<prog, runs, tpc, tmsg, analysisID, outputFile, prev,
                 waited, overran, started, terr, result, outputPath,
                 errorMessage, published, tattempts, tsends, perr,
                 treturn, messagingVars>>

\* cmd.Wait() returns once the process is gone; its result goes on done.
CmdWait ==
  /\ proc \in {"zero", "nonzero", "killed"}
  /\ ~waited
  /\ waited' = TRUE
  /\ UNCHANGED <<prog, runs, tpc, tmsg, analysisID, outputFile, prev,
                 proc, overran, started, artifact, terr, result,
                 outputPath, errorMessage, published, tattempts,
                 tsends, perr, treturn, messagingVars>>

\* case err := <-done: return err
SelectDone ==
  /\ tpc = "select"
  /\ waited
  /\ IF proc = "zero"
       THEN tpc' = "statOut" /\ UNCHANGED <<terr, result, outputPath, errorMessage>>
       ELSE Failed("exit")
  /\ UNCHANGED <<prog, runs, tmsg, analysisID, outputFile, prev, proc,
                 waited, overran, started, artifact, published,
                 tattempts, tsends, perr, treturn, messagingVars>>

\* Variant: a select without the timer case.
TimerNever ==
  /\ tpc = "select"
  /\ FALSE
  /\ UNCHANGED vars

\* case <-time.After(timeout): select takes it as soon as it is ready, also
\* when done is ready too.
TimerFires ==
  /\ tpc = "select"
  /\ tpc' = "kill"
  /\ overran' = (proc = "running")
  /\ UNCHANGED <<prog, runs, tmsg, analysisID, outputFile, prev, proc,
                 waited, started, artifact, terr, result, outputPath,
                 errorMessage, published, tattempts, tsends, perr,
                 treturn, messagingVars>>

\* Variant: the timeout is reported without a signal being sent.
KillNothing ==
  /\ tpc = "kill"
  /\ Failed("timeout")
  /\ UNCHANGED <<prog, runs, tmsg, analysisID, outputFile, prev, proc,
                 waited, overran, started, artifact, published,
                 tattempts, tsends, perr, treturn, messagingVars>>

\* cmd.Process.Kill(): an error once Wait has returned; otherwise the signal
\* is sent and Kill returns without waiting for the process to be gone.
Kill ==
  /\ tpc = "kill"
  /\ IF waited
       THEN Failed("kill") /\ UNCHANGED proc
       ELSE /\ proc' = IF proc = "running" THEN "dying" ELSE proc
            /\ Failed("timeout")
  /\ UNCHANGED <<prog, runs, tmsg, analysisID, outputFile, prev, waited,
                 overran, started, artifact, published, tattempts,
                 tsends, perr, treturn, messagingVars>>

\* The operating system ends the process the signal was sent to.
KillTakesEffect ==
  /\ proc = "dying"
  /\ proc' = "killed"
  /\ UNCHANGED <<prog, runs, tpc, tmsg, analysisID, outputFile, prev,
                 waited, overran, started, artifact, terr, result,
                 outputPath, errorMessage, published, tattempts,
                 tsends, perr, treturn, messagingVars>>

runWithTimeout ==
  \/ CmdStart
  \/ SelectDone
  \/ TimerFires
  \/ Kill

\* Variant: the exit status is trusted alone.
StatOutputSkipped ==
  /\ tpc = "statOut"
  /\ result' = "success"
  /\ outputPath' = outputFile
  /\ UNCHANGED errorMessage
  /\ tpc' = "publishCompleted"
  /\ UNCHANGED <<prog, runs, tmsg, analysisID, outputFile, prev, proc,
                 waited, overran, started, artifact, terr, published,
                 tattempts, tsends, perr, treturn, messagingVars>>

\* os.Stat(outputFile), then the "success" result
StatOutput ==
  /\ tpc = "statOut"
  /\ IF artifact
       THEN /\ result' = "success"
            /\ outputPath' = outputFile
            /\ tpc' = "publishCompleted"
            /\ UNCHANGED <<terr, errorMessage>>
       ELSE Failed("artifact")
  /\ UNCHANGED <<prog, runs, tmsg, analysisID, outputFile, prev, proc,
                 waited, overran, started, artifact, published,
                 tattempts, tsends, perr, treturn, messagingVars>>

ExecuteAnalysisSteps ==
  \/ MkdirAll
  \/ CheckExt
  \/ StatScript
  \/ runWithTimeout
  \/ StatOutput

\* s3Key is read in the handler but is neither declared nor assigned there,
\* and no store call is made: it holds a key or nothing.
s3Key == {"", "results/key"}

\* completedEvent and routingKey of handleAnalysisRequestedEvent, in the
\* err != nil branch and in the other.
CompletedOf(m) ==
  { [exchange |-> ResultEvents,
     key |-> KeyPrefix(AnalysisCompleted) \o m.fileType,
     event |-> e] :
    e \in IF terr # ""
            THEN { [kind |-> "AnalysisCompleted", filePath |-> m.filePath,
                    resultKey |-> "", analysisType |-> m.filePath,
                    processingTime |-> "since request", status |-> "failed"] }
            ELSE { [kind |-> "AnalysisCompleted", filePath |-> m.filePath,
                    resultKey |-> k, analysisType |-> m.fileType,
                    processingTime |-> "task duration", status |-> "success"] :
                   k \in s3Key } }

\* return rabbitMQ.PublishEvent(ctx, "biomarker.result.events", ...)
PublishCompleted ==
  /\ tpc = "publishCompleted"
  /\ tattempts' = tattempts + 1
  /\ \E e \in CompletedOf(tmsg) :
       \E r \in PublishEvent(e) :
         /\ published' = published \o r.put
         /\ tsends' = tsends + r.sends
         /\ perr' = r.err
         /\ treturn' = IF r.err = "" THEN "nil" ELSE "err"
  /\ tpc' = "returned"
  /\ UNCHANGED <<prog, runs, tmsg, analysisID, outputFile, prev, proc,
                 waited, overran, started, artifact, terr, result,
                 outputPath, errorMessage, messagingVars>>

handleAnalysisRequestedEvent ==
  \/ ExecuteAnalysisSteps
  \/ PublishCompleted

\* --------------------------------------------------------- specifications
InitClient ==
  /\ pc = [t \in Threads |-> IF t = "main" THEN "dial" ELSE "off"]
  /\ conn = 0
  /\ ch = 0
  /\ closed = FALSE
  /\ connRetry = 0
  /\ dialed = [t \in Threads |-> 0]
  /\ wpc = [i \in ConnIds |-> "none"]
  /\ wreg = [i \in ConnIds |-> 0]
  /\ sent = [i \in ConnIds |-> 0]
  /\ connState = [i \in ConnIds |-> "none"]
  /\ chanState = [i \in ConnIds |-> "none"]
  /\ closedBy = [i \in ConnIds |-> "none"]
  /\ nConn = 0
  /\ cycles = 0
  /\ topology = NoTopology
  /\ declIdx = 1
  /\ declaredVia = [i \in ConnIds |-> {}]
  /\ queue = [q \in QueueNames |-> <<>>]
  /\ held = [q \in QueueNames |-> <<>>]
  /\ consumerCh = [q \in QueueNames |-> 0]
  /\ injected = 0
  /\ entered = {}
  /\ arrived = [q \in QueueNames |-> <<>>]
  /\ removed = {}
  /\ msgs = [q \in Subscribed |-> <<>>]
  /\ dpc = [q \in Subscribed |-> "off"]
  /\ cur = [q \in Subscribed |-> NoMsg]
  /\ taken = [q \in Subscribed |-> <<>>]
  /\ herr = [q \in Subscribed |-> FALSE]
  /\ outcome = [q \in Subscribed |-> ""]
  /\ attempts = [q \in Subscribed |-> 0]
  /\ accepted = [q \in Subscribed |-> <<>>]
  /\ lastAck = [q \in Subscribed |-> <<>>]
  /\ usedCh = {}
  /\ okReturned = {}
  /\ runs = 1
  /\ InitTask

\* The file watcher: NewRabbitMQClient, SetupInfrastructure, the event loop,
\* and the deferred Close() when the loop returns.
Init ==
  /\ prog = "file-watcher"
  /\ faultsLeft = MaxFaults
  /\ InitClient

Next ==
  \/ NewRabbitMQClient
  \/ SetupInfrastructure
  \/ reconnectMonitor
  \/ \E i \in ConnIds : watcher(i)
  \/ Close
  \/ Exit
  \/ \E i \in ConnIds : BrokerDropConn(i) \/ BrokerDropChan(i)

Spec == Init /\ [][Next]_vars

\* The worker: NewRabbitMQClient, SetupInfrastructure, the two subscriptions,
\* then select {} for ever.
InitWorker ==
  /\ prog = "worker"
  /\ faultsLeft = MaxWorkerFaults
  /\ InitClient

\* The worker process and the broker it talks to.
WorkerSteps ==
  \/ NewRabbitMQClient
  \/ SetupInfrastructure
  \/ Subscribe
  \/ reconnectMonitor
  \/ \E i \in ConnIds : watcher(i)
  \/ \E q \in Subscribed : delivery(q)
  \/ ExecuteAnalysis
  \/ Exit
  \/ \E i \in ConnIds : BrokerDropConn(i) \/ BrokerDropChan(i)
  \/ \E q \in Subscribed : BrokerDeliver(q)

NextWorker ==
  \/ WorkerSteps
  \/ PublishFileDetected

SpecWorker == InitWorker /\ [][NextWorker]_vars

\* The worker with one message published to each of its two queues.
NextForeign ==
  \/ WorkerSteps
  \/ \E q \in Subscribed : PublishTo(q)

SpecForeign == InitWorker /\ [][NextForeign]_vars

\* The file watcher started more than once against one broker, whose
\* durable topology outlives each run.
InitRestart ==
  /\ prog = "file-watcher"
  /\ faultsLeft = MaxWorkerFaults
  /\ InitClient

NextRestart ==
  \/ Next
  \/ Restart

SpecRestart == InitRestart /\ [][NextRestart]_vars

\* The event chain of the worker: the handlers called on one message after
\* another, the R process and the operating system.
InitTaskChain ==
  /\ prog = "worker"
  /\ faultsLeft = 0
  /\ InitClient

NextTask ==
  \/ HandlerCall
  \/ handleFileDetectedEvent
  \/ handleAnalysisRequestedEvent
  \/ ProcessExits
  \/ CmdWait
  \/ KillTakesEffect

SpecTask == InitTaskChain /\ [][NextTask]_vars

\* A handler that can take a step takes one, and so do Wait and the
\* operating system; the timer is part of the handler.  Nothing makes the R
\* process end by itself.
FairTask ==
  /\ SpecTask
  /\ WF_vars(handleFileDetectedEvent)
  /\ WF_vars(handleAnalysisRequestedEvent)
  /\ WF_vars(CmdWait)
  /\ WF_vars(KillTakesEffect)

\* The scheduler runs every goroutine that can take a step; main leaves its
\* event loop only when the caller's events end, so entering Close() is not
\* forced.  A dial that is retried for ever is taken to succeed in the end.
Fairness ==
  /\ WF_vars(NewRabbitMQClient \/ SetupInfrastructure \/ CloseCh \/ CloseConn \/ Exit)
  /\ WF_vars(reconnectMonitor)
  /\ SF_vars(DialOk("loop"))
  /\ \A i \in ConnIds : WF_vars(watcher(i))

FairSpec == Spec /\ Fairness

\* ----------------------------------------------------------------- claims
\* A thread makes a dial attempt in this step.
Dials(t) == pc[t] = "dial" /\ pc'[t] \in {"channel", "sleep", "fatal"}

\* The client holds a connection and a channel that are both up.
Live ==
  /\ conn # 0 /\ connState[conn] = "open"
  /\ ch = conn /\ chanState[ch] = "open"

\* The process has ended, or is about to.
Stopped == pc["main"] \in {"fatal", "exited"}

\* C1: once Close() has set the flag, no goroutine dials again.
C1_NoDialAfterClose == [][closed => ~(\E t \in Threads : Dials(t))]_vars

\* C2: Close() sets c.closed before it closes anything, and the watcher of a
\* connection that Close() shut down never signals a reconnect.
C2_CloseSetsFlagFirst ==
  /\ pc["main"] \in {"closeCh", "closeConn", "returned"} => closed
  /\ \A i \in ConnIds :
       (wpc[i] # "none" /\ wreg[i] # 0 /\ closedBy[wreg[i]] = "client") =>
         (closed /\ wpc[i] # "send" /\ sent[i] = 0)

C2_Witness ==
  \E i \in ConnIds :
    wpc[i] = "done" /\ closedBy[wreg[i]] = "client" /\ sent[i] = 0

\* The connection the client holds was closed by the broker.
Lost == conn # 0 /\ connState[conn] = "closed" /\ closedBy[conn] = "broker"

\* A connection that is up has lost its channel alone.
Damaged == \E i \in ConnIds : connState[i] = "open" /\ chanState[i] = "closed"

\* The broker's faults are over and none has hit a channel alone.
Settled == faultsLeft = 0 /\ ~Damaged

\* C3: a failed attempt sends the loop to sleep and then back to dial, and a
\* lost connection is replaced by a live connection and channel once dial and
\* channel-open succeed, unless the client is closed or the process ends.
C3_RetriesUntilConnected ==
  /\ [][/\ (pc["loop"] \in {"dial", "channel"} /\ pc'["loop"] \notin {"exited"})
             => pc'["loop"] \in {"dial", "channel", "storeConn", "sleep"}
        /\ (pc["loop"] = "sleep" /\ pc'["loop"] \notin {"exited"})
             => pc'["loop"] \in {"sleep", "dial"}]_vars
  /\ (Lost /\ Settled) ~> (Live \/ closed \/ Stopped)

\* Reconnected after a lost connection and after an attempt that failed.
C3_Witness ==
  /\ Live /\ ~closed /\ closedBy[1] = "broker"
  /\ \E i \in ConnIds : 1 < i /\ i < conn /\ wpc[i] = "none"
                          /\ connState[i] = "closed"

\* The channel the client holds went down alone.
ChannelLost ==
  /\ ch # 0 /\ connState[ch] = "open" /\ chanState[ch] = "closed"
  /\ ~closed

\* C4: a channel that goes down alone is replaced by a usable one.
C4_ChannelRecovered == ChannelLost ~> (Live \/ closed \/ Stopped)

\* C5: one slot, at most one signal per connection instance, no watcher ever
\* waiting behind a pending signal, and no more reconnect cycles than
\* connection instances lost.
C5_SingleSlotSignal ==
  /\ connRetry <= 1
  /\ \A i \in ConnIds : sent[i] <= 1
  /\ \A i \in ConnIds : wpc[i] = "send" => connRetry = 0
  /\ cycles <= Cardinality({i \in ConnIds : sent[i] > 0 /\ connState[i] = "closed"})

\* The first instance lost its channel and then the connection itself: two
\* closures, one pending signal.
C5_Witness ==
  /\ nConn = 1 /\ faultsLeft <= MaxFaults - 2
  /\ connRetry = 1 /\ sent[1] = 1

\* Subscribe sets no prefetch limit (no Qos call), so the broker pushes every
\* ready message to the consumer: a message that is ready again and again is
\* delivered (the strong fairness of FairWorker).
DeliverMsg(q, id) ==
  /\ queue[q] # <<>>
  /\ Head(queue[q]).id = id
  /\ BrokerDeliver(q)

WorkerFairness ==
  /\ Fairness
  /\ WF_vars(Subscribe)
  /\ \A q \in Subscribed :
       /\ WF_vars(delivery(q))
       /\ WF_vars(BrokerDeliver(q))

\* The worker of SpecForeign whose analysis may never return: no fairness for
\* ExecuteAnalysis.
FairForeign ==
  /\ SpecForeign
  /\ WorkerFairness

FairWorker ==
  /\ SpecWorker
  /\ WorkerFairness
  /\ WF_vars(ExecuteAnalysis)
  /\ \A q \in Subscribed : \A id \in 1..MaxMsgs : SF_vars(DeliverMsg(q, id))

AllDeclarations == 1..Len(Declarations)

\* C6: every channel a publish has used had the whole topology declared
\* through it.
C6_TopologyRedeclared == \A i \in usedCh : declaredVia[i] = AllDeclarations

\* The consumer of a subscription is gone while the client is connected again.
Orphaned(q) ==
  /\ dpc[q] \notin {"off", "exited"}
  /\ consumerCh[q] # 0 /\ chanState[consumerCh[q]] = "closed"
  /\ Live

\* The subscription has a consumer on a channel that is up.
Consuming(q) == consumerCh[q] # 0 /\ chanState[consumerCh[q]] = "open"

\* C7: a subscription that lost its consumer gets one again after the
\* reconnect, or the process ends.
C7_SubscriptionSurvives ==
  \A q \in Subscribed : (Orphaned(q) /\ Settled) ~> (Consuming(q) \/ Stopped)

\* The handler of q is running on a message.
Handling(q) == dpc[q] \in {"unmarshal", "execute", "publish", "ack"}

\* The handler of q has returned and the loop has moved past its message.
Handled(q) == dpc[q] \in {"recv", "done"} /\ cur[q] # NoMsg

\* C8: no acknowledgment is issued while the handler runs, and after it has
\* returned exactly one has been: Ack(false) on nil, Nack(false, true) on an
\* error.
C8_OneAckPerMessage ==
  \A q \in Subscribed :
    /\ Handling(q) => lastAck[q] = <<>>
    /\ Handled(q) =>
         /\ Len(lastAck[q]) = 1
         /\ ~lastAck[q][1].multiple
         /\ herr[q] => (lastAck[q][1].op = "Nack" /\ lastAck[q][1].requeue)
         /\ ~herr[q] => lastAck[q][1].op = "Ack"

C8_Witness ==
  /\ Handled(FileDetected) /\ lastAck[FileDetected][1].op = "Ack"
  /\ Handled(AnalysisRequested) /\ lastAck[AnalysisRequested][1].op = "Nack"

\* The ids of the messages in a sequence.
Ids(s) == {s[k].id : k \in 1..Len(s)}

\* C9: the broker drops a message only after a handler returned nil for it,
\* and every other message that entered a queue is still in the queue or
\* held unacknowledged.
C9_AtLeastOnce ==
  /\ removed \subseteq okReturned
  /\ \A m \in entered \ removed : m[2] \in Ids(queue[m[1]]) \cup Ids(held[m[1]])

\* A message whose handler returned an error is back in its queue, and
\* another has been dropped after its handler returned nil.
C9_Witness ==
  /\ removed # {}
  /\ \E q \in Subscribed :
       /\ Handled(q) /\ herr[q]
       /\ cur[q].id \in Ids(queue[q])

Statuses == {"success", "failed", "timeout"}

\* C10: when the AnalysisRequested handler returns, it has published exactly
\* one AnalysisCompleted event, with a status among success, failed, timeout.
C10_ExactlyOneCompleted ==
  (dpc[AnalysisRequested] = "ack" /\ cur[AnalysisRequested].ok) =>
    /\ Len(accepted[AnalysisRequested]) = 1
    /\ accepted[AnalysisRequested][1].status \in Statuses

\* The events of one kind the handler call has published.
PublishedOf(kind) ==
  {published[k].event : k \in {j \in 1..Len(published) :
                                 published[j].event.kind = kind}}

\* The handler of queue q has returned from a message it could decode.
Returned(q) == tpc = "returned" /\ tmsg.queue = q /\ tmsg.ok

\* ExecuteAnalysis has returned to the handler.
Reported == tpc \in {"publishCompleted", "returned"} /\ result # ""

\* C11: a published AnalysisCompleted event has a result key exactly when
\* its status is success.
C11_ResultKeyIffSuccess ==
  \A e \in PublishedOf("AnalysisCompleted") :
    (e.resultKey # "") <=> (e.status = "success")

\* What the FileDetected handler has to publish for its message.
IsRequestFor(p, m) ==
  /\ p.exchange = "biomarker.analysis.events"
  /\ p.key = <<"analysis", ".", "requested">> \o m.fileType
  /\ p.event.kind = "AnalysisRequested"
  /\ p.event.filePath = m.filePath
  /\ p.event.fileType = m.fileType

C13_UnsupportedDropped ==
  (Returned(FileDetected) /\ tmsg.fileType \notin Supported) =>
    (tattempts = 0 /\ published = <<>>)

\* C14: when the timer fired on a running process, the outcome and the
\* completion event say timeout.
C14_TimeoutStatus ==
  (Reported /\ overran /\ terr = "timeout") =>
    /\ result = "timeout"
    /\ \A e \in PublishedOf("AnalysisCompleted") : e.status = "timeout"

\* C15 as stated: when the timeout is reported for a process that overran,
\* the process is gone.
C15_GoneWhenReported ==
  (Reported /\ overran /\ terr = "timeout") =>
    proc \in {"killed", "zero", "nonzero"}

\* C15: when the timeout is reported for a process that overran, the kill
\* signal has been sent to it or it has ended by itself; it may still be on
\* its way out.
C15_SignalledWhenReported ==
  (Reported /\ overran /\ terr = "timeout") =>
    proc \in {"dying", "killed", "zero", "nonzero"}

C15_Witness ==
  /\ tpc = "returned" /\ overran /\ terr = "timeout"
  /\ proc = "killed"

\* ExecuteAnalysis is running.
Executing ==
  tpc \in {"mkdir", "ext", "script", "start", "select", "kill", "statOut"}

\* C16: ExecuteAnalysis returns, also when the process never ends by itself.
C16_ExecuteAnalysisReturns == Executing ~> Reported

\* The timeout was reported while the process had not ended by itself.
C16_Witness ==
  /\ tpc = "publishCompleted" /\ terr = "timeout"
  /\ proc = "dying" /\ ~waited

\* C17: exit status zero without the output file is a failed outcome and a
\* failed completion event.
C17_MissingArtifactFails ==
  (Reported /\ proc = "zero" /\ ~artifact) =>
    /\ result = "failed"
    /\ \A e \in PublishedOf("AnalysisCompleted") : e.status = "failed"

C17_Witness ==
  /\ tpc = "returned" /\ terr = "artifact" /\ proc = "zero" /\ ~artifact
  /\ Len(published) = 1

\* C18: for a path of an unsupported type no process is started and the
\* outcome is failed.
C18_UnsupportedNeverRuns ==
  (tmsg.queue = AnalysisRequested /\ tmsg.ok
     /\ Ext(tmsg.filePath) \notin Supported) =>
    /\ started = 0 /\ proc = "none"
    /\ tpc \notin {"script", "start", "select", "kill", "statOut"}
    /\ Reported => result = "failed"

C18_Witness ==
  /\ Returned(AnalysisRequested) /\ tmsg.filePath = <<"c", ".", "txt">>
  /\ terr = "unsupported" /\ started = 0

FullTopology ==
  [exchanges |-> {exchanges[k] : k \in 1..Len(exchanges)},
   queues |-> {queues[k] : k \in 1..Len(queues)},
   bindings |-> {bindings[k] : k \in 1..Len(bindings)}]

\* The channels through which a whole SetupInfrastructure run was made.
SetupDoneVia == {i \in ConnIds : declaredVia[i] = AllDeclarations}

DeclarationsMade == UNION {declaredVia[i] : i \in ConnIds}

\* The worker has called Subscribe, or a consumer of it exists.
SubscribeCalled ==
  \/ pc["main"] \in {"subscribe", "block"}
  \/ \E q \in Subscribed : dpc[q] # "off" \/ consumerCh[q] # 0

\* SetupInfrastructure returned an error: main stopped before the last
\* declaration.
SetupFailed ==
  pc["main"] \in {"fatal", "exited"} /\ declIdx <= Len(Declarations)

\* C20: the declarations made are those before the first one that failed
\* and none after it, and the worker calls Subscribe only after every
\* declaration has succeeded.
C20_SetupBeforeSubscribe ==
  /\ DeclarationsMade = 1..(declIdx - 1)
  /\ SetupFailed => ~SubscribeCalled
  /\ SubscribeCalled =>
       (declIdx = Len(Declarations) + 1 /\ topology = FullTopology)

\* SetupInfrastructure failed part of the way and the worker stopped.
C20_Witness ==
  /\ SetupFailed /\ declIdx > 3
  /\ pc["main"] = "exited"
  /\ \A q \in Subscribed : dpc[q] = "off"

\* C21: one PublishEvent call makes at most one send and never repeats it: a
\* call whose serialization failed has sent nothing and returns an error, a
\* call whose send failed has sent once, put nothing on the exchange and
\* returns an error, and no call puts more than one message on the exchange.
C21_AtMostOneSend ==
  /\ tsends <= tattempts
  /\ Len(published) <= tsends
  /\ perr = "marshal" => tsends = 0 /\ published = <<>> /\ treturn = "err"
  /\ perr = "publish" => tsends = 1 /\ published = <<>> /\ treturn = "err"
  /\ treturn = "nil" /\ tattempts = 1 => tsends = 1 /\ Len(published) = 1

C21_Witness ==
  /\ tpc = "returned"
  /\ tattempts = 1
  /\ perr = "publish"
  /\ tsends = 1

LiveConnections == {i \in ConnIds : connState[i] = "open"}

\* C23: at every moment at most one connection dialed by the client is live,
\* through the first connect, closures by the broker, reconnect attempts and
\* Close().
C23_OneLiveConnection == Cardinality(LiveConnections) <= 1

C23_Witness ==
  /\ nConn >= 2
  /\ connState[1] = "closed"
  /\ closedBy[1] = "broker"
  /\ LiveConnections = {nConn}
  /\ conn = nConn

\* C24: the processingTime of every AnalysisCompleted event, whatever its
\* status, is the time elapsed since the timestamp of the AnalysisRequested
\* event, not the duration of the task.
C24_ProcessingTimeSinceRequest ==
  \A e \in PublishedOf("AnalysisCompleted") :
    e.processingTime = "since request"

\* The delivery loop of q took a message whose body cannot be decoded.
Malformed(q) == cur[q].id # 0 /\ ~cur[q].ok

NackRequeue == [op |-> "Nack", multiple |-> FALSE, requeue |-> TRUE]

\* C25: for a malformed body on either queue the handler returns an error
\* and makes no publish call, and the loop then answers the delivery with
\* exactly one Nack with requeue, so the broker does not drop the message.
C25_MalformedNacked ==
  \A q \in Subscribed :
    (Malformed(q) /\ dpc[q] \in {"ack", "recv", "done"}) =>
      /\ herr[q]
      /\ attempts[q] = 0
      /\ accepted[q] = <<>>
      /\ <<q, cur[q].id>> \notin removed
      /\ dpc[q] # "ack" => lastAck[q] = <<NackRequeue>>

C25_Witness ==
  \A q \in Subscribed :
    /\ Malformed(q)
    /\ dpc[q] = "recv"
    /\ lastAck[q] = <<NackRequeue>>
    /\ cur[q].id \in Ids(queue[q])

\* C26: once the client is closed while the reconnect loop waits for a signal,
\* a signal the loop takes from then on makes it return: it never goes on to
\* connect(), and having returned it takes no further step.
C26_LoopExitsWhenClosed ==
  [](pc["loop"] = "wait" /\ closed
       => [](pc["loop"] \in {"wait", "check", "done", "exited"}))

\* The calls of one kind that the run has made, and all calls of that kind.
MadeOf(op) == {Declarations[k].arg : k \in {j \in DeclarationsMade :
                                                Declarations[j].op = op}}

AllOf(op) == {Declarations[k].arg : k \in {j \in 1..Len(Declarations) :
                                               Declarations[j].op = op}}

\* C27: in a run of SetupInfrastructure a queue is declared only after all
\* three exchanges, a binding is made only after all three queues, and every
\* binding made names a queue and an exchange declared earlier in the run.
C27_DeclarationOrder ==
  /\ Cardinality(AllOf("ExchangeDeclare")) = 3
  /\ Cardinality(AllOf("QueueDeclare")) = 3
  /\ MadeOf("QueueDeclare") # {} =>
       MadeOf("ExchangeDeclare") = AllOf("ExchangeDeclare")
  /\ MadeOf("QueueBind") # {} =>
       MadeOf("QueueDeclare") = AllOf("QueueDeclare")
  /\ \A b \in MadeOf("QueueBind") :
       /\ b.queue \in {x.name : x \in MadeOf("QueueDeclare")}
       /\ b.exchange \in {x.name : x \in MadeOf("ExchangeDeclare")}

C27_Witness ==
  /\ pc["main"] = "setup"
  /\ Cardinality(MadeOf("QueueBind")) = 2
  /\ Cardinality(MadeOf("QueueDeclare")) = 3

\* The queues that the bindings of SetupInfrastructure route a key to.
BoundQueues(exchange, key) ==
  {bindings[k].queue : k \in {j \in 1..Len(bindings) :
                                 /\ bindings[j].exchange = exchange
                                 /\ TopicMatch(bindings[j].routingKey, key)}}

QueueOfKind(kind) ==
  CASE kind = "FileDetected" -> FileDetected
    [] kind = "AnalysisRequested" -> AnalysisRequested
    [] kind = "AnalysisCompleted" -> AnalysisCompleted

\* C28: every event a handler publishes carries a routing key that the
\* binding of the queue of its kind matches and no other binding does: the
\* event is enqueued in exactly that one queue.
C28_RoutedToOneQueue ==
  \A k \in 1..Len(published) :
    BoundQueues(published[k].exchange, published[k].key)
      = {QueueOfKind(published[k].event.kind)}

\* The malformed message that the loop of q has answered with a nack.
Rejected(q, id) ==
  /\ Malformed(q) /\ cur[q].id = id
  /\ dpc[q] = "recv"
  /\ lastAck[q] = <<NackRequeue>>

\* C29: a message whose handler fails on every delivery (a body that cannot
\* be decoded) is never dropped by the broker and never shows up in another
\* queue, and while its subscription is live every nack of it is followed by
\* the handler running on it again.
C29_RedeliveredForever ==
  /\ [](\A q \in Subscribed :
         Malformed(q) =>
           /\ <<q, cur[q].id>> \notin removed
           /\ \A r \in QueueNames \ {q} :
                cur[q].id \notin Ids(queue[r]) \cup Ids(held[r]))
  /\ \A q \in Subscribed : \A id \in 1..MaxMsgs :
       Rejected(q, id) ~>
         ((dpc[q] = "unmarshal" /\ cur[q].id = id) \/ ~Consuming(q))

C29_Witness ==
  \E q \in Subscribed :
    /\ Rejected(q, cur[q].id)
    /\ Consuming(q)
    /\ cur[q].id \in Ids(msgs[q])

\* A message of q waits at the broker or in the delivery channel.
Waiting(q) == queue[q] # <<>> \/ msgs[q] # <<>>

\* C30: the handler of a queue starts on a message only from the head of
\* the loop, after the handler of the previous message has returned and its
\* one ack or nack has been issued; and while the AnalysisRequested handler
\* is blocked in the analysis, a message waiting on file.detected is still
\* taken up by its own loop as long as that subscription has its consumer.
C30_SynchronousPerQueue ==
  /\ [][\A q \in Subscribed :
         (dpc[q] # "unmarshal" /\ dpc'[q] = "unmarshal") =>
           /\ dpc[q] = "recv"
           /\ cur[q] # NoMsg => Len(lastAck[q]) = 1]_vars
  /\ (dpc[AnalysisRequested] = "execute" /\ dpc[FileDetected] = "recv"
        /\ Waiting(FileDetected))
       ~> (Handling(FileDetected) \/ ~Consuming(FileDetected))

C30_Witness ==
  /\ dpc[AnalysisRequested] = "execute"
  /\ dpc[FileDetected] \in {"publish", "ack"}
  /\ Len(lastAck[AnalysisRequested]) = 0

IsPrefix(s, t) == Len(s) <= Len(t) /\ s = SubSeq(t, 1, Len(s))

\* C31: within one queue the handler gets the messages for the first time in
\* the order in which they were published to the queue; so as long as no
\* message is nacked or redelivered the handler invocations follow publish
\* order.
C31_PublishOrder == \A q \in Subscribed : IsPrefix(taken[q], arrived[q])

C31_Witness ==
  /\ Len(arrived[AnalysisRequested]) = 2
  /\ taken[AnalysisRequested] = arrived[AnalysisRequested]
  /\ \A k \in 1..2 :
       <<AnalysisRequested, arrived[AnalysisRequested][k]>> \in removed

\* connect() returns an error in this step of thread t.
ConnectFails(t) ==
  /\ pc[t] \in {"dial", "channel"}
  /\ pc'[t] \in {"fatal", "sleep"}

\* C32: a connect() that fails in the dial or in opening the channel leaves
\* c.conn and c.ch as they were, starts no close-watcher, and in the second
\* case has closed the connection it dialed; when the first connect fails
\* the reconnect loop is never started.
C32_FailedConnectLeavesClient ==
  /\ [][\A t \in Threads :
         ConnectFails(t) =>
           /\ conn' = conn /\ ch' = ch
           /\ wpc' = wpc
           /\ pc[t] = "channel" => connState'[dialed[t]] = "closed"
           /\ t = "main" => pc'["loop"] = "off"]_vars
  /\ [](pc["main"] = "fatal" /\ conn = 0 =>
         /\ pc["loop"] = "off"
         /\ ch = 0
         /\ \A i \in ConnIds : wpc[i] = "none" /\ connState[i] # "open")

C32_Witness ==
  /\ pc["loop"] = "sleep"
  /\ dialed["loop"] \notin {0, conn}
  /\ connState[dialed["loop"]] = "closed"
  /\ closedBy[dialed["loop"]] = "client"
  /\ wpc[dialed["loop"]] = "none"

\* This invocation and the one before it worked on the same input file (on
\* one date) and both computed their artifact path.
SameInputTwice ==
  /\ outputFile # NoFile
  /\ prev # NoRun
  /\ prev.filePath = tmsg.filePath

\* C33: two invocations on the same input with distinct invocation
\* identifiers have distinct artifact paths.
C33_DistinctPaths ==
  (SameInputTwice /\ prev.analysisID # analysisID) =>
    prev.outputFile # outputFile

\* What the code does give: the paths of two invocations on the same input
\* differ exactly when the first eight characters of their identifiers do.
DistinctPathsByPrefix ==
  SameInputTwice =>
    (prev.outputFile # outputFile <=> prev.analysisID[1] # analysisID[1])

\* C34: once Close() has returned and no goroutine of the client can take a
\* further step, the reconnect loop and every close-watcher have returned:
\* none is left blocked on connRetry.
C34_GoroutinesEnd ==
  (pc["main"] = "returned"
     /\ ~ENABLED (reconnectMonitor \/ \E i \in ConnIds : watcher(i))) =>
    /\ pc["loop"] = "done"
    /\ \A i \in ConnIds : wpc[i] \in {"none", "done"}

\* ------------------------------------------------------------------- C35
\* The loop of analysis.requested has answered a message that could be
\* decoded.
Answered == Handled(AnalysisRequested) /\ cur[AnalysisRequested].ok

AckOne == [op |-> "Ack", multiple |-> FALSE, requeue |-> FALSE]

C35_AckedAfterFailure ==
  /\ Answered
  /\ outcome[AnalysisRequested] = "failed"
  /\ Len(accepted[AnalysisRequested]) = 1
  /\ lastAck[AnalysisRequested] = <<AckOne>>
  /\ <<AnalysisRequested, cur[AnalysisRequested].id>> \in removed

\* ------------------------------------------------------------------- C36
\* The watchers that have sent their signal.
Signalled == {i \in ConnIds : sent[i] > 0}

\* The signals the loop has taken: the one it is looking at, the ones that
\* started a reconnect cycle, and the one it returned on.
Consumed ==
  cycles + (IF pc["loop"] = "check" THEN 1 ELSE 0)
         + (IF pc["loop"] = "done" THEN 1 ELSE 0)

\* The connection of the first connect() went down before the loop started
\* and its signal is in the buffer.
EarlySignal == pc["loop"] = "off" /\ connRetry = 1 /\ sent[1] = 1

\* C36: a signal sent before the reconnect loop waits stays in connRetry
\* until the loop takes it; no signal is ever dropped (each one is pending,
\* under examination by the loop, or has started a reconnect cycle or ended
\* the loop); the loop can take a pending signal as soon as it waits and, the
\* client not being closed, dials next; and a signal pending before the loop
\* started leads to a reconnect attempt unless the client is closed or the
\* process ends.
C36_EarlySignalKept ==
  /\ [][pc["loop"] = "off" /\ connRetry = 1 => connRetry' = 1]_vars
  /\ [][connRetry' < connRetry => pc["loop"] = "wait" /\ pc'["loop"] = "check"]_vars
  /\ [](pc["loop"] # "exited" => Cardinality(Signalled) = connRetry + Consumed)
  /\ [](pc["loop"] = "wait" /\ connRetry > 0 => ENABLED LoopRecv)
  /\ [][pc["loop"] = "check" /\ ~closed /\ pc'["loop"] # "check" =>
         pc'["loop"] \in {"dial", "exited"}]_vars
  /\ EarlySignal ~> (cycles > 0 \/ closed \/ Stopped)

\* The first connection was dropped and its watcher has signalled while
\* NewRabbitMQClient has not yet started the loop.
C36_Witness ==
  /\ EarlySignal
  /\ pc["main"] = "spawn"
  /\ connState[1] = "closed" /\ closedBy[1] = "broker"
  /\ ~closed

\* The loop, started with that signal pending, dials without any further
\* closure having happened.
C36_ReconnectsFromEarlySignal ==
  /\ pc["loop"] = "dial" /\ cycles = 1
  /\ sent[1] = 1 /\ connRetry = 0
  /\ faultsLeft = MaxFaults - 1

\* ------------------------------------------------------------------- C37
\* ExecuteAnalysis has returned to the handler of a decoded
\* AnalysisRequested message.
ExecuteAnalysisReturned ==
  /\ tmsg.queue = AnalysisRequested /\ tmsg.ok
  /\ tpc \in {"publishCompleted", "returned"}

\* C37: whenever ExecuteAnalysis has returned there is a result, its status
\* is success or failed, and the error is nil exactly when it is success; a
\* success result has the output path of this invocation, which is not
\* empty and whose file exists, and no error message; any other result has
\* an empty output path and an error message that is not empty.
C37_ResultWellFormed ==
  ExecuteAnalysisReturned =>
    /\ result \in {"success", "failed"}
    /\ terr = "" <=> result = "success"
    /\ result = "success" =>
         /\ outputPath = outputFile
         /\ outputPath # NoFile /\ outputPath.dir # "" /\ outputPath.short # ""
         /\ artifact
         /\ errorMessage = ""
    /\ result # "success" =>
         /\ outputPath = NoFile
         /\ errorMessage # ""

\* A successful analysis has returned its result.
C37_Witness ==
  /\ ExecuteAnalysisReturned
  /\ result = "success" /\ terr = ""
  /\ outputPath # NoFile /\ artifact

\* A run whose process exited with status zero without writing the file has
\* returned a failed result, although an output path had been chosen.
C37_FailedAfterRun ==
  /\ ExecuteAnalysisReturned
  /\ result = "failed" /\ terr = "artifact"
  /\ outputFile # NoFile /\ outputPath = NoFile /\ errorMessage # ""
====
